---- MODULE Spec2Model ----
(***************************************************************************)
(* domogeek: French public holidays, working days and the CalDAV override. *)
(* Model of src/pkg/calendar/calendar.go (the Calendar type) and of        *)
(* src/cmd/domogeek/domogeek.go (main and the /calendar handler).          *)
(*                                                                         *)
(* A time.Time is the record [day, sec, loc, off]: the wall-clock reading  *)
(* of the instant in its own location, day counted from 0001-01-01 (day 0, *)
(* a Monday) of the proleptic Gregorian calendar, sec the second of the    *)
(* day, and off the offset of the location from UTC at the instant, in     *)
(* seconds (it tells apart the two instants with the same reading when the *)
(* clock goes back).  Two Times of the same location are equal exactly     *)
(* when Go's == says so.                                                   *)
(***************************************************************************)
EXTENDS Integers, Sequences, FiniteSets

VARIABLES
    pc,                   \* where main is: "lib" and "go" (no main: the package is used
                          \* directly), "start", "validate", "new", "serve", or ended:
                          \* "flagError" (flag.Parse exits), "usage" (no argument),
                          \* "loggerFatal" (no logger), "fatal" (NewCaldav failed),
                          \* "listenFatal" (ListenAndServe returned), "exit" (SIGTERM)
    osArgs,               \* len(os.Args)
    caldavUrl,            \* flag -caldav-url
    caldavPath,           \* flag -caldav-path
    caldavSummaryPattern, \* flag -caldav-summary-pattern
    attempts,             \* failed ValidateServer attempts of retry.Do so far
    validation,           \* the last ValidateServer attempt: "none", "failed", "ok"
    cal,                  \* the Calendar (NoCal before New has run)
    argYear,              \* the year given to the next call
    argDate,              \* the time.Time given to the next call
    remote,               \* what the caldav library gives a call now: whether the
                          \* query is built, and what the remote calendar answers
    call,                 \* the last completed call: operation and results
    req,                  \* the /calendar request being served
    reachable,            \* whether the server at caldavUrl answers ValidateServer now
    goroutines            \* the IsHoliday calls running concurrently: each one's locals

vars == <<pc, osArgs, caldavUrl, caldavPath, caldavSummaryPattern, attempts, validation,
          cal, argYear, argDate, remote, call, req, reachable, goroutines>>

(***************************************************************************)
(* Bounds of the model.                                                    *)
(***************************************************************************)
MinYear == 1583
MaxYear == 2100
MaxEvents == 2
MaxOpts == 3
MaxAttempts == 3
MaxCalls == 2

Years == MinYear..MaxYear

(***************************************************************************)
(* package time: the civil calendar.                                       *)
(***************************************************************************)
January == 1
March == 3
May == 5
July == 7
August == 8
November == 11
December == 12

Sunday == 0
Monday == 1
Friday == 5

Paris == "Europe/Paris"
UTCLoc == "UTC"
Locations == {Paris, UTCLoc}

\* daysBefore[m] of package time: days of a non-leap year before month m+1.
daysBefore == <<0, 31, 59, 90, 120, 151, 181, 212, 243, 273, 304, 334, 365>>

isLeap(year) == year % 4 = 0 /\ (year % 100 # 0 \/ year % 400 = 0)

\* Days in the y years that follow 0001-01-01: whole cycles of 400, 100, 4 and 1 years.
daysInYears(y) ==
    146097 * (y \div 400) + 36524 * ((y % 400) \div 100)
        + 1461 * ((y % 100) \div 4) + 365 * (y % 4)

\* Days from 0001-01-01 to January 1 of year (time.daysSinceEpoch, epoch moved to year 1).
daysSinceEpoch(year) == daysInYears(year - 1)

\* The day number of a date whose month is within 1..12; the day may overflow.
dayOfMonth(year, month, day) ==
    daysSinceEpoch(year) + daysBefore[month]
        + (IF isLeap(year) /\ month >= 3 THEN 1 ELSE 0)
        + (day - 1)

\* The day number of year-month-day; month and day may overflow (time.Date normalises).
DayNumber(year, month, day) ==
    dayOfMonth(year + ((month - 1) \div 12), ((month - 1) % 12) + 1, day)

\* time.absDate: the year and the day of the year (0-based) of a day number,
\* by cycles of 400 years, centuries (n - n>>2: at most 3 in a cycle), cycles
\* of 4 years and years (at most 3 in a cycle).
absDateYear(n400, n100, n4, n1, d) ==
    [year |-> 400 * n400 + 100 * n100 + 4 * n4 + n1 + 1, yday |-> d - 365 * n1]

absDate4(n400, n100, n4, d) ==
    absDateYear(n400, n100, n4, (d \div 365) - ((d \div 365) \div 4), d)

absDate100(n400, n100, d) ==
    absDate4(n400, n100, (d - 36524 * n100) \div 1461, (d - 36524 * n100) % 1461)

absDate400(n400, d) ==
    absDate100(n400, (d \div 36524) - ((d \div 36524) \div 4), d)

absDate(d) == absDate400(d \div 146097, d % 146097)

\* time.Time.Date, from the year and the day of the year: [year, month, day].
\* yd is the day of the year with the leap day taken out, m the month guessed
\* as yd / 31 (0-based), corrected when yd is past its end.
dateInMonth(year, yd, m) ==
    IF yd >= daysBefore[m + 2]
    THEN [year |-> year, month |-> m + 2, day |-> yd - daysBefore[m + 2] + 1]
    ELSE [year |-> year, month |-> m + 1, day |-> yd - daysBefore[m + 1] + 1]

dateOf(a) ==
    IF isLeap(a.year) /\ a.yday = 31 + 29 - 1
    THEN [year |-> a.year, month |-> 2, day |-> 29]
    ELSE IF isLeap(a.year) /\ a.yday > 31 + 29 - 1
    THEN dateInMonth(a.year, a.yday - 1, (a.yday - 1) \div 31)
    ELSE dateInMonth(a.year, a.yday, a.yday \div 31)

\* [year, month, day] of a day number.
CivilOf(d) == dateOf(absDate(d))

Year(t) == CivilOf(t.day).year
Month(t) == CivilOf(t.day).month
Day(t) == CivilOf(t.day).day

\* time.Time.Weekday: day 0 (0001-01-01) is a Monday.
Weekday(t) == (t.day + 1) % 7

(***************************************************************************)
(* package time: locations.  UTC has offset 0.  Europe/Paris is the zone   *)
(* of the tz database that time.LoadLocation reads: local mean time        *)
(* (+00:09:21) until 1911, then the changes listed in ParisChanges up to   *)
(* 1980, then UTC+1 with UTC+2 from the last Sunday of March 01:00 UTC to  *)
(* the last Sunday of September (until 1995) or of October (from 1996, the *)
(* rule Go extends into the future) 01:00 UTC.                             *)
(***************************************************************************)
\* The offset of Europe/Paris, in seconds, before its first change:
\* local mean time, 0 h 9 min 21 s ahead of UTC.
ParisLMT == 9 * 60 + 21

\* The changes of Europe/Paris from 1911 to 1980, in order: the UTC instant
\* <<year, month, day, second of the day>> and the offset in seconds from then on.
ParisChanges ==
    << <<1911,  3, 10, 85839,    0>>,
       <<1916,  6, 14, 82800, 3600>>, <<1916, 10,  1, 82800,    0>>,
       <<1917,  3, 24, 82800, 3600>>, <<1917, 10,  7, 82800,    0>>,
       <<1918,  3,  9, 82800, 3600>>, <<1918, 10,  6, 82800,    0>>,
       <<1919,  3,  1, 82800, 3600>>, <<1919, 10,  5, 82800,    0>>,
       <<1920,  2, 14, 82800, 3600>>, <<1920, 10, 23, 82800,    0>>,
       <<1921,  3, 14, 82800, 3600>>, <<1921, 10, 25, 82800,    0>>,
       <<1922,  3, 25, 82800, 3600>>, <<1922, 10,  7, 82800,    0>>,
       <<1923,  5, 26, 82800, 3600>>, <<1923, 10,  6, 82800,    0>>,
       <<1924,  3, 29, 82800, 3600>>, <<1924, 10,  4, 82800,    0>>,
       <<1925,  4,  4, 82800, 3600>>, <<1925, 10,  3, 82800,    0>>,
       <<1926,  4, 17, 82800, 3600>>, <<1926, 10,  2, 82800,    0>>,
       <<1927,  4,  9, 82800, 3600>>, <<1927, 10,  1, 82800,    0>>,
       <<1928,  4, 14, 82800, 3600>>, <<1928, 10,  6, 82800,    0>>,
       <<1929,  4, 20, 82800, 3600>>, <<1929, 10,  5, 82800,    0>>,
       <<1930,  4, 12, 82800, 3600>>, <<1930, 10,  4, 82800,    0>>,
       <<1931,  4, 18, 82800, 3600>>, <<1931, 10,  3, 82800,    0>>,
       <<1932,  4,  2, 82800, 3600>>, <<1932, 10,  1, 82800,    0>>,
       <<1933,  3, 25, 82800, 3600>>, <<1933, 10,  7, 82800,    0>>,
       <<1934,  4,  7, 82800, 3600>>, <<1934, 10,  6, 82800,    0>>,
       <<1935,  3, 30, 82800, 3600>>, <<1935, 10,  5, 82800,    0>>,
       <<1936,  4, 18, 82800, 3600>>, <<1936, 10,  3, 82800,    0>>,
       <<1937,  4,  3, 82800, 3600>>, <<1937, 10,  2, 82800,    0>>,
       <<1938,  3, 26, 82800, 3600>>, <<1938, 10,  1, 82800,    0>>,
       <<1939,  4, 15, 82800, 3600>>, <<1939, 11, 18, 82800,    0>>,
       <<1940,  2, 25,  7200, 3600>>, <<1940,  6, 14, 79200, 7200>>,
       <<1942, 11,  2,  3600, 3600>>,
       <<1943,  3, 29,  3600, 7200>>, <<1943, 10,  4,  3600, 3600>>,
       <<1944,  4,  3,  3600, 7200>>, <<1944, 10,  7, 82800, 3600>>,
       <<1945,  4,  2,  3600, 7200>>, <<1945,  9, 16,  3600, 3600>>,
       <<1976,  3, 28,     0, 7200>>, <<1976,  9, 25, 82800, 3600>>,
       <<1977,  4,  3,  3600, 7200>>, <<1977,  9, 25,  3600, 3600>>,
       <<1978,  4,  2,  3600, 7200>>, <<1978, 10,  1,  3600, 3600>>,
       <<1979,  4,  1,  3600, 7200>>, <<1979,  9, 30,  3600, 3600>>,
       <<1980,  4,  6,  3600, 7200>>, <<1980,  9, 28,  3600, 3600>> >>

\* The changes as [day, sec, off]: the UTC instant by day number and second.
ParisTransitions ==
    [i \in DOMAIN ParisChanges |->
        [day |-> DayNumber(ParisChanges[i][1], ParisChanges[i][2], ParisChanges[i][3]),
         sec |-> ParisChanges[i][4],
         off |-> ParisChanges[i][5]]]

\* The last Sunday on or before day number d.
SundayBefore(d) == d - ((d + 1) % 7)

\* The last Sunday of a month after February, in the year that starts on day
\* number jan1 and has leap (0 or 1) leap days.
LastSunday(jan1, leap, month) == SundayBefore(jan1 + leap + daysBefore[month + 1] - 1)

Before(d1, s1, d2, s2) == d1 < d2 \/ (d1 = d2 /\ s1 < s2)

\* The offset of Europe/Paris once n of the listed changes have happened.
offsetAfter(n) == IF n = 0 THEN ParisLMT ELSE ParisTransitions[n].off

\* The offset of Europe/Paris at the UTC instant (day, sec) of a year up to
\* 1980: the offset set by the last change at or before the instant.
parisTableOffset(day, sec) ==
    offsetAfter(Cardinality({i \in DOMAIN ParisTransitions :
        ~Before(day, sec, ParisTransitions[i].day, ParisTransitions[i].sec)}))

\* The offset of Europe/Paris at the UTC instant (day, sec) of a year from
\* 1981 on, the year starting on day number jan1: two hours between the two
\* changes of the year (01:00 UTC of the last Sundays of March and of the
\* month summer time ends in), else one.
parisOffset(day, sec, jan1, leap, endMonth) ==
    IF /\ ~Before(day, sec, LastSunday(jan1, leap, 3), 3600)
       /\ Before(day, sec, LastSunday(jan1, leap, endMonth), 3600)
    THEN 7200 ELSE 3600

\* The offset of Europe/Paris at the UTC instant (day, sec), a = absDate(day).
parisLookup(day, sec, a) ==
    IF a.year >= 1981
    THEN parisOffset(day, sec, day - a.yday, IF isLeap(a.year) THEN 1 ELSE 0,
                     IF a.year >= 1996 THEN 10 ELSE 9)
    ELSE parisTableOffset(day, sec)

\* Location.lookup: the offset from UTC, in seconds, at the UTC instant (day, sec).
lookup(loc, day, sec) ==
    IF loc = Paris THEN parisLookup(day, sec, absDate(day)) ELSE 0

\* The offset of loc at the UTC instant that u reads.
offsetAt(loc, u) == lookup(loc, u.day, u.sec)

\* The reading (day, sec) with sec brought into the day.
norm(day, sec) == [day |-> day + (sec \div 86400), sec |-> sec % 86400]

\* The Time whose reading in loc is w, off being the offset of loc at it.
atOffset(w, loc, off) == [day |-> w.day, sec |-> w.sec, loc |-> loc, off |-> off]

\* The UTC instant that reads u, read off seconds ahead of UTC in loc.
ahead(u, loc, off) == atOffset(norm(u.day, u.sec + off), loc, off)

\* The UTC instant that reads u, read in loc.
inLoc(u, loc) == ahead(u, loc, offsetAt(loc, u))

\* Time.UTC: the same instant read in UTC.
UTC(t) == atOffset(norm(t.day, t.sec - t.off), UTCLoc, 0)

\* Time.In: the same instant read in loc.
In(t, loc) == inLoc(UTC(t), loc)

\* Time.Add of a number of seconds: the instant moves, the location is kept.
Add(t, seconds) == inLoc(norm(t.day, t.sec - t.off + seconds), t.loc)

\* The offset time.Date gives to the wall-clock reading w in loc: the reading
\* is looked up as if it were UTC, then the instant that guess gives is.
zoneOffset(loc, w) == offsetAt(loc, norm(w.day, w.sec - offsetAt(loc, w)))

\* The instant of the wall-clock reading w in loc, read in loc (a reading that
\* the clock of loc skips comes out later by the time skipped).
fromWall(w, loc) == inLoc(norm(w.day, w.sec - zoneOffset(loc, w)), loc)

\* time.Date(year, month, day, 0, 0, sec, 0, loc): hours and minutes are given
\* as seconds, which time.Date carries over the same.
DateClock(year, month, day, sec, loc) ==
    fromWall(norm(DayNumber(year, month, day), sec), loc)

\* time.Date(year, month, day, 0, 0, 0, 0, loc): midnight of the civil day in loc.
Date(year, month, day, loc) == DateClock(year, month, day, 0, loc)

\* time.Time.AddDate(years, months, days): time.Date of t.Date() moved, with
\* the clock and the location of t.
addToDate(c, t, years, months, days) ==
    DateClock(c.year + years, c.month + months, c.day + days, t.sec, t.loc)

AddDate(t, years, months, days) == addToDate(CivilOf(t.day), t, years, months, days)

(***************************************************************************)
(* package strings.  A string is a sequence of characters.                 *)
(***************************************************************************)
\* strings.Contains taken for equality.
Contains_Equal(s, substr) == s = substr

Contains(s, substr) ==
    \E i \in 0..(Len(s) - Len(substr)) : SubSeq(s, i + 1, i + Len(substr)) = substr

(***************************************************************************)
(* type Calendar, its options and New.                                     *)
(***************************************************************************)
Nil == "nil"
NoCal == [Location |-> "", cdav |-> Nil, caldavPath |-> "", caldavSummaryPattern |-> <<>>]

WithCaldav(cdav) ==
    [opt |-> "WithCaldav", cdav |-> cdav, path |-> "", pattern |-> <<>>]
WithCaldavSummaryPattern(pattern) ==
    [opt |-> "WithCaldavSummaryPattern", cdav |-> Nil, path |-> "", pattern |-> pattern]
WithCaldavPath(path) ==
    [opt |-> "WithCaldavPath", cdav |-> Nil, path |-> path, pattern |-> <<>>]

\* opt(c): the closure an Option holds, applied to the Calendar.
ApplyOption(c, o) ==
    IF o.opt = "WithCaldav" THEN [c EXCEPT !.cdav = o.cdav]
    ELSE IF o.opt = "WithCaldavSummaryPattern" THEN [c EXCEPT !.caldavSummaryPattern = o.pattern]
    ELSE [c EXCEPT !.caldavPath = o.path]

RECURSIVE ApplyOptions(_, _)
ApplyOptions(c, opts) ==
    IF opts = <<>> THEN c
    ELSE ApplyOptions(ApplyOption(c, Head(opts)), Tail(opts))

New(location, opts) ==
    ApplyOptions([Location |-> location, cdav |-> Nil, caldavPath |-> "",
                  caldavSummaryPattern |-> <<>>], opts)

(***************************************************************************)
(* Easter Sunday and the holidays of a year.                               *)
(***************************************************************************)
\* GetEasterDay without the two corrections of the epact (i = h).
GetEasterDay_NoCorrection(c, year) ==
    LET g == year % 19
        cc == year \div 100
        c4 == cc \div 4
        h == (19 * g + cc - c4 - ((8 * cc + 13) \div 25) + 15) % 30
        i == h
        dayWeek == ((year \div 4) + year + i + 2 + c4 - cc) % 7
        presJour == 28 + i - dayWeek
    IN  AddDate(Date(year, 3, 31, c.Location), 0, 0, presJour - 31)

\* GetEasterDay without the golden-number test of the correction at h = 28.
GetEasterDay_NoGoldenNumber(c, year) ==
    LET g == year % 19
        cc == year \div 100
        c4 == cc \div 4
        h == (19 * g + cc - c4 - ((8 * cc + 13) \div 25) + 15) % 30
        k == h \div 28
        i == (k * (29 \div (h + 1)) - 1) * k + h
        dayWeek == ((year \div 4) + year + i + 2 + c4 - cc) % 7
        presJour == 28 + i - dayWeek
    IN  AddDate(Date(year, 3, 31, c.Location), 0, 0, presJour - 31)

GetEasterDay(c, year) ==
    LET g == year % 19
        cc == year \div 100
        c4 == cc \div 4
        h == (19 * g + cc - c4 - ((8 * cc + 13) \div 25) + 15) % 30
        k == h \div 28
        i == (k * (29 \div (h + 1)) * ((21 - g) \div 11) - 1) * k + h
        dayWeek == ((year \div 4) + year + i + 2 + c4 - cc) % 7
        presJour == 28 + i - dayWeek
        month == (IF presJour > 31 THEN 3 ELSE 2) + 1
        day == IF month = 2 THEN presJour ELSE presJour - 31
    IN  AddDate(Date(year, 3, 31, c.Location), 0, 0, day)

\* GetHolidays with Ascension one day late.
GetHolidays_Ascension40(c, year) ==
    LET paques == GetEasterDay(c, year)
    IN  << Date(year, January, 1, c.Location),
           AddDate(paques, 0, 0, 1),
           Date(year, May, 1, c.Location),
           Date(year, May, 8, c.Location),
           AddDate(paques, 0, 0, 40),
           Date(year, July, 14, c.Location),
           Date(year, August, 15, c.Location),
           Date(year, November, 1, c.Location),
           Date(year, November, 11, c.Location),
           Date(year, December, 25, c.Location) >>

\* GetHolidays with Easter Sunday itself in place of Easter Monday.
GetHolidays_EasterSunday(c, year) ==
    LET paques == GetEasterDay(c, year)
    IN  << Date(year, January, 1, c.Location),
           paques,
           Date(year, May, 1, c.Location),
           Date(year, May, 8, c.Location),
           AddDate(paques, 0, 0, 39),
           Date(year, July, 14, c.Location),
           Date(year, August, 15, c.Location),
           Date(year, November, 1, c.Location),
           Date(year, November, 11, c.Location),
           Date(year, December, 25, c.Location) >>

GetHolidays(c, year) ==
    LET paques == GetEasterDay(c, year)
    IN  << Date(year, January, 1, c.Location),
           AddDate(paques, 0, 0, 1),
           Date(year, May, 1, c.Location),
           Date(year, May, 8, c.Location),
           AddDate(paques, 0, 0, 39),
           Date(year, July, 14, c.Location),
           Date(year, August, 15, c.Location),
           Date(year, November, 1, c.Location),
           Date(year, November, 11, c.Location),
           Date(year, December, 25, c.Location) >>

\* The map[time.Time]bool filled from the list, every value true: the set of its keys.
KeysOf(holidays) == {holidays[i] : i \in 1..Len(holidays)}

GetHolidaysSet(c, year) == KeysOf(GetHolidays(c, year))

(***************************************************************************)
(* The override path.  What the caldav library gives one call is the      *)
(* record [built, err, events]: built, whether NewEventRangeQuery returns  *)
(* a query (not an error) for the window; then the answer of QueryEvents:  *)
(* a failure (err), or the events overlapping the window, each with its    *)
(* Summary.                                                                *)
(***************************************************************************)
NoTime == [day |-> 0, sec |-> 0, loc |-> "", off |-> 0]
NoQuery == [start |-> NoTime, end |-> NoTime]
NoAnswer == [built |-> TRUE, err |-> FALSE, events |-> <<>>]

\* entities.NewEventRangeQuery(start, end): the query for the window, or an
\* error and no query when the library does not build it (built is FALSE).
NewEventRangeQuery(start, end, built) ==
    [query |-> IF built THEN [start |-> start, end |-> end] ELSE NoQuery,
     err |-> ~built]

\* The query IsHolidaysFromCaldav builds, start being day.UTC().
dayQuery(start, built) ==
    NewEventRangeQuery(start, Add(start, 23 * 3600 + 59 * 60), built)

\* IsHolidaysFromCaldav on a Calendar with a client, q being what
\* NewEventRangeQuery returned: without query it returns the error and asks
\* nothing; else QueryEvents is called and answers.
fromCaldav(c, q, answer) ==
    IF q.err
    THEN [ret |-> FALSE, err |-> TRUE, queried |-> FALSE, path |-> "", query |-> NoQuery]
    ELSE IF answer.err
    THEN [ret |-> FALSE, err |-> TRUE, queried |-> TRUE,
          path |-> c.caldavPath, query |-> q.query]
    ELSE [ret |-> \E n \in 1..Len(answer.events) :
                      Contains(answer.events[n].Summary, c.caldavSummaryPattern),
          err |-> FALSE, queried |-> TRUE,
          path |-> c.caldavPath, query |-> q.query]

\* Returns [ret, err]: the two results; queried: whether QueryEvents was called,
\* and with which path and window.
IsHolidaysFromCaldav(c, day, answer) ==
    IF c.cdav = Nil
    THEN [ret |-> FALSE, err |-> FALSE, queried |-> FALSE, path |-> "", query |-> NoQuery]
    ELSE fromCaldav(c, dayQuery(UTC(day), answer.built), answer)

\* Midnight, in c.Location, of the civil day d = [year, month, day].
midnightOf(c, d) == Date(d.year, d.month, d.day, c.Location)

\* The day taken from the date read in UTC, not in cal.Location.
HolidayDay_UTC(c, date) == midnightOf(c, CivilOf(UTC(date).day))

\* The day IsHoliday looks up and queries: midnight of date's civil day in cal.Location.
HolidayDay(c, date) == midnightOf(c, CivilOf(In(date, c.Location).day))

\* What IsHoliday returns, h being the holidays, day the day looked up and
\* caldav what IsHolidaysFromCaldav(day) returned: ret is the result, logged
\* whether the remote error was logged, caldav the call made.
holidayResult(h, day, caldav) ==
    [ret |-> (day \in h) \/ caldav.ret, logged |-> caldav.err, caldav |-> caldav]

holidayResult_FailClosed(h, day, caldav) ==
    [ret |-> ~caldav.err /\ ((day \in h) \/ caldav.ret),
     logged |-> caldav.err, caldav |-> caldav]

holidayOn(c, h, day, answer) ==
    holidayResult(h, day, IsHolidaysFromCaldav(c, day, answer))

holidayOn_FailClosed(c, h, day, answer) ==
    holidayResult_FailClosed(h, day, IsHolidaysFromCaldav(c, day, answer))

\* IsHoliday giving up (not a holiday) when the remote query fails.
IsHoliday_FailClosed(c, date, answer) ==
    holidayOn_FailClosed(c, GetHolidaysSet(c, Year(date)), HolidayDay(c, date), answer)

IsHoliday(c, date, answer) ==
    holidayOn(c, GetHolidaysSet(c, Year(date)), HolidayDay(c, date), answer)

\* IsWorkingDay with Friday left out of the week.
IsWorkingDay_NoFriday(c, date, answer) ==
    ~IsHoliday(c, date, answer).ret /\ Weekday(date) >= Monday /\ Weekday(date) < Friday

IsWorkingDay(c, date, answer) ==
    ~IsHoliday(c, date, answer).ret /\ Weekday(date) >= Monday /\ Weekday(date) <= Friday

IsWeekDay(c, day) == Weekday(day) >= Monday /\ Weekday(day) <= Friday

(***************************************************************************)
(* Inputs.                                                                 *)
(***************************************************************************)
Holidays == <<"H", "o", "l", "i", "d", "a", "y", "s">>
AnotherEvent == <<"A", "n", "o", "t", "h", "e", "r", " ", "e", "v", "e", "n", "t">>
SummerHolidays ==
    <<"S", "u", "m", "m", "e", "r", " ", "H", "o", "l", "i", "d", "a", "y", "s">>
Event == <<"e", "v", "e", "n", "t">>

Summaries == {Holidays, AnotherEvent, SummerHolidays}
Patterns == {Holidays, Event}
Events == {[Summary |-> sm] : sm \in Summaries}
EventLists == UNION {[1..n -> Events] : n \in 0..MaxEvents}
\* QueryEvents returns an error.
Failure == [built |-> TRUE, err |-> TRUE, events |-> <<>>]
\* NewEventRangeQuery returns an error: no query is sent, nothing is answered.
Unbuilt == [built |-> FALSE, err |-> FALSE, events |-> <<>>]
Answers ==
    {Failure, Unbuilt} \cup {[built |-> TRUE, err |-> FALSE, events |-> es] : es \in EventLists}

\* The answers a call on c can get: none when c has no client and asks nothing.
AnswersFor(c) == IF c.cdav = Nil THEN {NoAnswer} ELSE Answers

Options ==
    {WithCaldav("mock"), WithCaldavPath("my_calendar/")}
        \cup {WithCaldavSummaryPattern(p) : p \in Patterns}
OptionLists == UNION {[1..n -> Options] : n \in 0..MaxOpts}

\* Midnight in Paris of every day of the periods the tests use (January 2019,
\* with its weekdays and New Year; Easter to Ascension 2020 and April 2022), of
\* the other holidays of 2020 and their morrows, and instants given in UTC close
\* to a change of day, of week or of year in Paris.
DatePeriods ==
    { <<DayNumber(2018, 12, 31), DayNumber(2019, 1, 14)>>,
      <<DayNumber(2020, 4, 11), DayNumber(2020, 4, 14)>>,
      <<DayNumber(2020, 4, 30), DayNumber(2020, 5, 9)>>,
      <<DayNumber(2020, 5, 20), DayNumber(2020, 5, 22)>>,
      <<DayNumber(2022, 4, 15), DayNumber(2022, 4, 18)>> }
      \cup {<<DayNumber(2020, h[1], h[2]), DayNumber(2020, h[1], h[2] + 1)>> :
                h \in {<<1, 1>>, <<7, 14>>, <<8, 15>>, <<11, 1>>, <<11, 11>>, <<12, 25>>}}
Midnights ==
    {fromWall(norm(d, 0), Paris) : d \in UNION {p[1]..p[2] : p \in DatePeriods}}
UTCInstants ==
    {DateClock(y, m, d, sc, UTCLoc) :
        y \in {2019}, m \in {1, 12}, d \in {5, 6, 31}, sc \in {12 * 3600, 23 * 3600 + 30 * 60}}

\* Instants read in Paris (as time.Now() is there) on the day the clock goes
\* back: 02:30 the first time (00:30 UTC) and the second time (01:30 UTC).
RepeatedHour ==
    {In(DateClock(2020, 10, 25, sc, UTCLoc), Paris) : sc \in {30 * 60, 90 * 60}}

Dates == Midnights \cup UTCInstants \cup RepeatedHour

(***************************************************************************)
(* The record of a completed call.                                         *)
(***************************************************************************)
\* type CalendarDay, the body of a /calendar response.
NoDay ==
    [Day |-> NoTime, WorkingDay |-> FALSE, Ferie |-> FALSE, Holiday |-> FALSE,
     Weekday |-> FALSE]

NoCall ==
    [op |-> "none", time |-> NoTime, list |-> <<>>, set |-> {}, bool |-> FALSE,
     err |-> FALSE, logged |-> FALSE, queried |-> FALSE, path |-> "", query |-> NoQuery,
     cd |-> NoDay]

\* A /calendar request: where it is, its time.Now(), the fields computed so
\* far, and whether it has made a remote query and logged an error so far.
NoReq ==
    [pc |-> "idle", now |-> NoTime, holiday |-> FALSE, workingDay |-> FALSE,
     queried |-> FALSE, logged |-> FALSE]

(***************************************************************************)
(* The package used directly (as its tests do): calls on a Calendar.       *)
(***************************************************************************)
CallGetEasterDay ==
    /\ pc = "lib"
    /\ call' = [NoCall EXCEPT !.op = "GetEasterDay", !.time = GetEasterDay(cal, argYear)]
    /\ UNCHANGED <<pc, osArgs, caldavUrl, caldavPath, caldavSummaryPattern, attempts, validation,
                   cal, argYear, argDate, remote, req,
                   reachable, goroutines>>

CallGetHolidays ==
    /\ pc = "lib"
    /\ call' = [NoCall EXCEPT !.op = "GetHolidays", !.list = GetHolidays(cal, argYear)]
    /\ UNCHANGED <<pc, osArgs, caldavUrl, caldavPath, caldavSummaryPattern, attempts, validation,
                   cal, argYear, argDate, remote, req,
                   reachable, goroutines>>

CallGetHolidaysSet ==
    /\ pc = "lib"
    /\ call' = [NoCall EXCEPT !.op = "GetHolidaysSet", !.set = GetHolidaysSet(cal, argYear)]
    /\ UNCHANGED <<pc, osArgs, caldavUrl, caldavPath, caldavSummaryPattern, attempts, validation,
                   cal, argYear, argDate, remote, req,
                   reachable, goroutines>>

\* The record of an IsHoliday call that returned r.
HolidayReturned(r) ==
    [NoCall EXCEPT !.op = "IsHoliday", !.bool = r.ret, !.logged = r.logged,
                   !.queried = r.caldav.queried, !.path = r.caldav.path,
                   !.query = r.caldav.query]

\* The record of an IsHolidaysFromCaldav call that returned r.
CaldavReturned(r) ==
    [NoCall EXCEPT !.op = "IsHolidaysFromCaldav", !.bool = r.ret, !.err = r.err,
                   !.queried = r.queried, !.path = r.path, !.query = r.query]

CallIsHoliday ==
    /\ pc = "lib"
    /\ call' = HolidayReturned(IsHoliday(cal, argDate, remote))
    /\ UNCHANGED <<pc, osArgs, caldavUrl, caldavPath, caldavSummaryPattern, attempts, validation,
                   cal, argYear, argDate, remote, req,
                   reachable, goroutines>>

\* The record of an IsWorkingDay call that returned ret, r being what the
\* IsHoliday call it makes first returned: its query and its log are made too.
WorkingDayReturned(r, ret) ==
    [HolidayReturned(r) EXCEPT !.op = "IsWorkingDay", !.bool = ret]

CallIsWorkingDay ==
    /\ pc = "lib"
    /\ call' = WorkingDayReturned(IsHoliday(cal, argDate, remote),
                                  IsWorkingDay(cal, argDate, remote))
    /\ UNCHANGED <<pc, osArgs, caldavUrl, caldavPath, caldavSummaryPattern, attempts, validation,
                   cal, argYear, argDate, remote, req,
                   reachable, goroutines>>

CallIsWeekDay ==
    /\ pc = "lib"
    /\ call' = [NoCall EXCEPT !.op = "IsWeekDay", !.bool = IsWeekDay(cal, argDate)]
    /\ UNCHANGED <<pc, osArgs, caldavUrl, caldavPath, caldavSummaryPattern, attempts, validation,
                   cal, argYear, argDate, remote, req,
                   reachable, goroutines>>

CallIsHolidaysFromCaldav ==
    /\ pc = "lib"
    /\ call' = CaldavReturned(IsHolidaysFromCaldav(cal, argDate, remote))
    /\ UNCHANGED <<pc, osArgs, caldavUrl, caldavPath, caldavSummaryPattern, attempts, validation,
                   cal, argYear, argDate, remote, req,
                   reachable, goroutines>>

\* The date functions of a Calendar built by New(location), in either location,
\* called with any year.
InitCalendar ==
    /\ pc = "lib"
    /\ osArgs = 0
    /\ caldavUrl = ""
    /\ caldavPath = ""
    /\ caldavSummaryPattern = <<>>
    /\ attempts = 0
    /\ validation = "none"
    /\ cal \in {New(location, <<>>) : location \in Locations}
    /\ argYear \in Years
    /\ argDate = NoTime
    /\ remote = NoAnswer
    /\ call = NoCall
    /\ req = NoReq
    /\ reachable = FALSE
    /\ goroutines = <<>>

NextCalendar == CallGetEasterDay \/ CallGetHolidays \/ CallGetHolidaysSet

SpecCalendar == InitCalendar /\ [][NextCalendar]_vars

\* The holiday queries on a Calendar built by New(Paris, opts), any options,
\* called with any date while the remote calendar gives any answer.
InitOracle ==
    /\ pc = "lib"
    /\ osArgs = 0
    /\ caldavUrl = ""
    /\ caldavPath = ""
    /\ caldavSummaryPattern = <<>>
    /\ attempts = 0
    /\ validation = "none"
    /\ cal \in {New(Paris, opts) : opts \in OptionLists}
    /\ argYear = 0
    /\ argDate \in Dates
    /\ remote \in AnswersFor(cal)
    /\ call = NoCall
    /\ req = NoReq
    /\ reachable = FALSE
    /\ goroutines = <<>>

NextOracle ==
    CallIsHoliday \/ CallIsWorkingDay \/ CallIsWeekDay \/ CallIsHolidaysFromCaldav

SpecOracle == InitOracle /\ [][NextOracle]_vars

(***************************************************************************)
(* The program: main, then the HTTP handlers.                              *)
(***************************************************************************)
Urls == {"", "https://dav.example.org/"}
Paths == {"", "my_calendar/"}

\* time.Now() of a request: instants of a few days, in Paris and in UTC.
Nows ==
    { DateClock(2020, 7, 14, 10 * 3600, Paris),
      DateClock(2019, 12, 31, 23 * 3600 + 30 * 60, UTCLoc),
      In(DateClock(2020, 10, 25, 30 * 60, UTCLoc), Paris) }

\* What the caldav library gives a call of the program: no query, a failure of
\* the remote calendar, or at most one event.
RemoteAnswers == {a \in Answers : Len(a.events) <= 1}

\* retry.Attempts(0): no limit on the attempts.
Attempts == 0

\* client.ValidateServer(caldavPath) against the server at caldavUrl: it needs
\* a server to talk to, and succeeds when that server is reachable.
ValidateServer(url, up) == url # "" /\ up

\* The function retry.Do is given, returning nil whatever ValidateServer returned.
attempt_NeverFails(url, up) == TRUE

\* The function retry.Do is given, returning an error whatever ValidateServer
\* returned.
attempt_AlwaysFails(url, up) == FALSE

\* The function retry.Do is given (one attempt): it returns nil (TRUE) when
\* ValidateServer returned no error, else an error that wraps it.
attempt(url, up) == ValidateServer(url, up)

\* retry.Do after an attempt, n attempts having failed before it: "return" (nil)
\* when it returned nil, else "retry" (OnRetry, back-off delay, next attempt),
\* or "error" when the attempts allowed are used up.  retry-go is a dependency
\* of the repository: Attempts(0) is taken as the specification and the
\* comment at its use state it, no limit on the attempts.
retryDo(n, ok) ==
    IF ok THEN "return"
    ELSE IF Attempts = 0 \/ n + 1 < Attempts THEN "retry"
    ELSE "error"

\* Where main is after its first lines: flag.Parse ends the process when the
\* command line does not parse (a flag that is not defined, -log among them as
\* it is defined after the first Parse, a malformed value, -h); no argument at
\* all prints the defaults and exits; without logger main ends with Fatalf;
\* else NewCaldav is called.
\* main building the Calendar without calling NewCaldav.
startOutcome_SkipsValidation(args, parsed, logger) ==
    IF args > 1 /\ ~parsed THEN "flagError"
    ELSE IF args <= 1 THEN "usage"
    ELSE IF ~logger THEN "loggerFatal"
    ELSE "new"

startOutcome(args, parsed, logger) ==
    IF args > 1 /\ ~parsed THEN "flagError"
    ELSE IF args <= 1 THEN "usage"
    ELSE IF ~logger THEN "loggerFatal"
    ELSE "validate"

\* main up to the call of NewCaldav, whether the command line parses and
\* whether the logger can be built.
MainStart ==
    /\ pc = "start"
    /\ \E parsed \in BOOLEAN, logger \in BOOLEAN :
          pc' = startOutcome(osArgs, parsed, logger)
    /\ UNCHANGED <<osArgs, caldavUrl, caldavPath, caldavSummaryPattern, attempts, validation,
                   cal, argYear, argDate, remote, call, req,
                   reachable, goroutines>>

\* NewCaldav: one attempt of retry.Do, which calls ValidateServer.  When
\* retry.Do returns nil NewCaldav returns the client; on an error of retry.Do
\* it returns the error and main ends with Fatal.  validation records what
\* ValidateServer returned, attempts counts the attempts that returned an
\* error (up to MaxAttempts; the attempts go on beyond).
ValidateAttempt ==
    /\ pc = "validate"
    /\ LET ok == attempt(caldavUrl, reachable)
           next == retryDo(attempts, ok)
       IN  /\ validation' = IF ValidateServer(caldavUrl, reachable) THEN "ok" ELSE "failed"
           /\ attempts' = IF ~ok /\ attempts < MaxAttempts THEN attempts + 1 ELSE attempts
           /\ pc' = IF next = "return" THEN "new"
                     ELSE IF next = "retry" THEN "validate"
                     ELSE "fatal"
    /\ UNCHANGED <<osArgs, caldavUrl, caldavPath, caldavSummaryPattern,
                   cal, argYear, argDate, remote, call, req,
                   reachable, goroutines>>

\* main from the return of NewCaldav: the Calendar is built, the handlers are
\* registered and the listener starts.
MainServe ==
    /\ pc = "new"
    /\ cal' = New(Paris, << WithCaldav("client"), WithCaldavPath(caldavPath),
                            WithCaldavSummaryPattern(caldavSummaryPattern) >>)
    /\ pc' = "serve"
    /\ UNCHANGED <<osArgs, caldavUrl, caldavPath, caldavSummaryPattern, attempts, validation,
                   argYear, argDate, remote, call, req,
                   reachable, goroutines>>

\* The request of time now once IsHolidaysFromCaldav(now) returned r: an error
\* is logged as a warning and the field is false.
caldavAsked(now, r) ==
    [pc |-> "workingDay", now |-> now, holiday |-> r.ret, workingDay |-> FALSE,
     queried |-> r.queried, logged |-> r.err]

\* The request q once IsWorkingDay(now) returned ret, r being what the
\* IsHoliday call it makes returned.
workingDayAsked(q, r, ret) ==
    [q EXCEPT !.pc = "ferie", !.workingDay = ret,
              !.queried = @ \/ r.caldav.queried, !.logged = @ \/ r.logged]

\* CalendarHandler.ServeHTTP, up to its first remote query (IsHolidaysFromCaldav).
ServeHTTPCaldav ==
    /\ pc = "serve"
    /\ req.pc = "idle"
    /\ \E now \in Nows : req' = caldavAsked(now, IsHolidaysFromCaldav(cal, now, remote))
    /\ UNCHANGED <<pc, osArgs, caldavUrl, caldavPath, caldavSummaryPattern, attempts,
                   validation, cal, argYear, argDate, remote, call,
                   reachable, goroutines>>

\* ServeHTTP: cal.IsWorkingDay(now), its second remote query.
ServeHTTPWorkingDay ==
    /\ pc = "serve"
    /\ req.pc = "workingDay"
    /\ req' = workingDayAsked(req, IsHoliday(cal, req.now, remote),
                              IsWorkingDay(cal, req.now, remote))
    /\ UNCHANGED <<pc, osArgs, caldavUrl, caldavPath, caldavSummaryPattern, attempts,
                   validation, cal, argYear, argDate, remote, call,
                   reachable, goroutines>>

\* The record of a request r answered, ferie being what IsHoliday returned and
\* weekday what IsWeekDay returned: the CalendarDay written as the response,
\* and whether one of its three calls made a remote query or logged an error.
Served(r, ferie, weekday) ==
    [NoCall EXCEPT !.op = "ServeHTTP",
                   !.queried = r.queried \/ ferie.caldav.queried,
                   !.logged = r.logged \/ ferie.logged,
                   !.cd = [Day |-> r.now, WorkingDay |-> r.workingDay,
                           Ferie |-> ferie.ret, Holiday |-> r.holiday,
                           Weekday |-> weekday]]

\* ServeHTTP: cal.IsHoliday(now), its third remote query, cal.IsWeekDay(now)
\* and the response.
ServeHTTPFerie ==
    /\ pc = "serve"
    /\ req.pc = "ferie"
    /\ call' = Served(req, IsHoliday(cal, req.now, remote), IsWeekDay(cal, req.now))
    /\ req' = NoReq
    /\ UNCHANGED <<pc, osArgs, caldavUrl, caldavPath, caldavSummaryPattern, attempts,
                   validation, cal, argYear, argDate, remote,
                   reachable, goroutines>>

\* The "caldav" health check of /status.
CaldavCheck ==
    /\ pc = "serve"
    /\ \E now \in Nows :
          call' = CaldavReturned(IsHolidaysFromCaldav(cal, now, remote))
    /\ UNCHANGED <<pc, osArgs, caldavUrl, caldavPath, caldavSummaryPattern, attempts,
                   validation, cal, argYear, argDate, remote, req,
                   reachable, goroutines>>

\* http.ListenAndServe returns (the address cannot be listened on, or the
\* listener fails later): its goroutine ends the process with Fatal.
ListenFails ==
    /\ pc = "serve"
    /\ pc' = "listenFatal"
    /\ UNCHANGED <<osArgs, caldavUrl, caldavPath, caldavSummaryPattern, attempts, validation,
                   cal, argYear, argDate, remote, call, req,
                   reachable, goroutines>>

\* SIGTERM ends main.
Sigterm ==
    /\ pc = "serve"
    /\ pc' = "exit"
    /\ UNCHANGED <<osArgs, caldavUrl, caldavPath, caldavSummaryPattern, attempts, validation,
                   cal, argYear, argDate, remote, call, req,
                   reachable, goroutines>>

\* The remote calendar changes: its events, or whether it can be queried.
RemoteChanges ==
    /\ pc \in {"validate", "new", "serve"}
    /\ remote' \in RemoteAnswers \ {remote}
    /\ UNCHANGED <<pc, osArgs, caldavUrl, caldavPath, caldavSummaryPattern, attempts,
                   validation, cal, argYear, argDate, call, req,
                   reachable, goroutines>>

\* The server at caldavUrl becomes reachable, or stops being so, while
\* NewCaldav is validating.
ReachabilityChanges ==
    /\ pc = "validate"
    /\ reachable' = ~reachable
    /\ UNCHANGED <<pc, osArgs, caldavUrl, caldavPath, caldavSummaryPattern, attempts,
                   validation, cal, argYear, argDate, remote, call, req, goroutines>>

\* The program started with any flags: without argument they have their defaults.
Init ==
    /\ pc = "start"
    /\ osArgs \in {1, 3}
    /\ caldavUrl \in Urls
    /\ caldavPath \in Paths
    /\ caldavSummaryPattern \in Patterns
    /\ osArgs <= 1 => (caldavUrl = "" /\ caldavPath = "" /\ caldavSummaryPattern = Holidays)
    /\ attempts = 0
    /\ validation = "none"
    /\ cal = NoCal
    /\ argYear = 0
    /\ argDate = NoTime
    /\ remote \in RemoteAnswers
    /\ call = NoCall
    /\ req = NoReq
    /\ reachable \in BOOLEAN
    /\ goroutines = <<>>

Next ==
    \/ MainStart
    \/ ValidateAttempt
    \/ MainServe
    \/ ServeHTTPCaldav
    \/ ServeHTTPWorkingDay
    \/ ServeHTTPFerie
    \/ CaldavCheck
    \/ ListenFails
    \/ Sigterm
    \/ RemoteChanges
    \/ ReachabilityChanges

Spec == Init /\ [][Next]_vars

\* The program as it is scheduled: main runs on to the call of NewCaldav, and
\* in retry.Do the next attempt runs after a failed one and its back-off delay
\* (finite).
SpecLive == Spec /\ WF_vars(MainStart) /\ WF_vars(ValidateAttempt)

(***************************************************************************)
(* Properties of the date functions, under SpecCalendar.                   *)
(***************************************************************************)
\* Midnight of year-month-day in the Calendar's location.
Midnight(y, m, d) == Date(y, m, d, cal.Location)

\* C1: GetEasterDay(Y) is a date of year Y, a Sunday, from March 22 to April 25.
C1_EasterSundayInRange ==
    call.op = "GetEasterDay" =>
        /\ CivilOf(call.time.day).year = argYear
        /\ Weekday(call.time) = Sunday
        /\ DayNumber(argYear, 3, 22) <= call.time.day
        /\ call.time.day <= DayNumber(argYear, 4, 25)

C1_Witness ==
    /\ call.op = "GetEasterDay"
    /\ argYear = 1818
    /\ call.time = Midnight(1818, 3, 22)

\* The anonymous Gregorian algorithm (Meeus, Jones, Butcher): [month, day] of Easter.
AnonymousGregorian(Y) ==
    LET a == Y % 19
        b == Y \div 100
        c == Y % 100
        d == b \div 4
        e == b % 4
        f == (b + 8) \div 25
        g == (b - f + 1) \div 3
        h == (19 * a + b - d - g + 15) % 30
        i == c \div 4
        k == c % 4
        l == (32 + 2 * e + 2 * i - h - k) % 7
        m == (a + 11 * h + 22 * l) \div 451
        n == h + l - 7 * m + 114
    IN  [month |-> n \div 31, day |-> (n % 31) + 1]

\* C2: GetEasterDay(Y) is midnight, in the Calendar's location, of the Easter
\* Sunday of the anonymous Gregorian algorithm; April 21 in 2019, April 12 in
\* 2020, April 4 in 2021.
C2_EasterIsAnonymousGregorian ==
    call.op = "GetEasterDay" =>
        /\ call.time = Midnight(argYear, AnonymousGregorian(argYear).month,
                                AnonymousGregorian(argYear).day)
        /\ argYear = 2019 => call.time = Midnight(2019, 4, 21)
        /\ argYear = 2020 => call.time = Midnight(2020, 4, 12)
        /\ argYear = 2021 => call.time = Midnight(2021, 4, 4)

C2_Witness ==
    /\ call.op = "GetEasterDay"
    /\ argYear = 2020
    /\ cal.Location = Paris
    /\ call.time = Date(2020, 4, 12, Paris)

\* Easter Sunday of the year of the call falls on March d.
EasterOnMarch(d) == GetEasterDay(cal, argYear).day = DayNumber(argYear, 3, d)

\* C3 as stated: the 10 dates of GetHolidays(Y) are pairwise distinct and
\* GetHolidaysSet(Y) has 10 members, for every year.
C3_TenDistinctHolidays ==
    /\ call.op = "GetHolidays" =>
          /\ Len(call.list) = 10
          /\ \A i, j \in 1..Len(call.list) : call.list[i] = call.list[j] => i = j
    /\ call.op = "GetHolidaysSet" => Cardinality(call.set) = 10

\* C3 amended: GetHolidays(Y) has 10 entries; they are pairwise distinct and
\* GetHolidaysSet(Y) has 10 members, unless Easter falls on March 23 or on
\* March 30: then Ascension (the 5th entry) is May 1 (the 3rd) or May 8 (the
\* 4th), no other two entries are equal, and the set has 9 members.
C3_TenHolidaysDistinctButAscension ==
    /\ call.op = "GetHolidays" =>
          /\ Len(call.list) = 10
          /\ \A i, j \in 1..Len(call.list) :
                (i < j /\ call.list[i] = call.list[j]) =>
                    \/ i = 3 /\ j = 5 /\ EasterOnMarch(23)
                    \/ i = 4 /\ j = 5 /\ EasterOnMarch(30)
          /\ EasterOnMarch(23) => call.list[5] = call.list[3]
          /\ EasterOnMarch(30) => call.list[5] = call.list[4]
    /\ call.op = "GetHolidaysSet" =>
          Cardinality(call.set) = IF EasterOnMarch(23) \/ EasterOnMarch(30) THEN 9 ELSE 10

C3_Witness ==
    /\ call.op = "GetHolidaysSet"
    /\ argYear = 2008
    /\ Cardinality(call.set) = 9
    /\ Midnight(2008, 5, 1) \in call.set

\* The holidays of year Y, from the Easter Sunday of the anonymous Gregorian algorithm.
ExpectedHolidays(Y) ==
    LET E == DayNumber(Y, AnonymousGregorian(Y).month, AnonymousGregorian(Y).day)
    IN  { Midnight(Y, 1, 1), Midnight(Y, 5, 1), Midnight(Y, 5, 8), Midnight(Y, 7, 14),
          Midnight(Y, 8, 15), Midnight(Y, 11, 1), Midnight(Y, 11, 11), Midnight(Y, 12, 25),
          fromWall(norm(E + 1, 0), cal.Location),
          fromWall(norm(E + 39, 0), cal.Location) }

\* C4: the holidays of Y are the eight fixed dates, Easter Monday and Ascension
\* (Easter + 39 days), at midnight in the Calendar's location, without Easter
\* Sunday; in 2020: Jan 1, Apr 13, May 1, May 8, May 21, Jul 14, Aug 15, Nov 1,
\* Nov 11, Dec 25.
C4_HolidaySetIsFixedPlusEaster ==
    /\ call.op = "GetHolidaysSet" =>
          /\ call.set = ExpectedHolidays(argYear)
          /\ GetEasterDay(cal, argYear) \notin call.set
          /\ argYear = 2020 =>
                call.set = { Midnight(2020, 1, 1), Midnight(2020, 4, 13), Midnight(2020, 5, 1),
                             Midnight(2020, 5, 8), Midnight(2020, 5, 21), Midnight(2020, 7, 14),
                             Midnight(2020, 8, 15), Midnight(2020, 11, 1),
                             Midnight(2020, 11, 11), Midnight(2020, 12, 25) }
    /\ call.op = "GetHolidays" =>
          /\ {call.list[i] : i \in 1..Len(call.list)} = ExpectedHolidays(argYear)
          /\ \A i \in 1..Len(call.list) : call.list[i] # GetEasterDay(cal, argYear)

C4_Witness ==
    /\ call.op = "GetHolidaysSet"
    /\ argYear = 2020
    /\ Midnight(2020, 4, 13) \in call.set
    /\ Midnight(2020, 5, 21) \in call.set
    /\ Midnight(2020, 4, 12) \notin call.set

(***************************************************************************)
(* Properties of the holiday queries, under SpecOracle.                    *)
(***************************************************************************)
\* The date of the call is a midnight in the Calendar's location.
AtMidnight == argDate.sec = 0 /\ argDate.loc = cal.Location

\* Midnight of year-month-day in Paris.
ParisDay(y, m, d) == Date(y, m, d, Paris)

\* C5: without override client, IsHoliday(D), D a midnight in the configured
\* zone, is true exactly when D is in GetHolidaysSet(year(D)); 2019-01-02 is not.
C5_IsHolidayIsMembership ==
    (call.op = "IsHoliday" /\ cal.cdav = Nil /\ AtMidnight) =>
        /\ call.bool = (argDate \in GetHolidaysSet(cal, CivilOf(argDate.day).year))
        /\ argDate = ParisDay(2019, 1, 2) => call.bool = FALSE

C5_Witness ==
    /\ call.op = "IsHoliday"
    /\ cal.cdav = Nil
    /\ argDate = ParisDay(2020, 5, 21)
    /\ call.bool = TRUE

\* C6: IsWorkingDay(D) = (not IsHoliday(D)) and IsWeekDay(D), the remote giving
\* the same answer to both; without override client it is true from 2019-01-07
\* to 2019-01-11 and on 2019-01-02, and it is false on 2019-01-12, 2019-01-13
\* and 2019-01-01.
C6_WorkingDayIsWeekdayNotHoliday ==
    call.op = "IsWorkingDay" =>
        /\ call.bool = (~IsHoliday(cal, argDate, remote).ret /\ IsWeekDay(cal, argDate))
        /\ (cal.cdav = Nil /\ argDate \in {ParisDay(2019, 1, d) : d \in {2, 7, 8, 9, 10, 11}})
                => call.bool = TRUE
        /\ argDate \in {ParisDay(2019, 1, d) : d \in {1, 12, 13}} => call.bool = FALSE

C6_Witness ==
    /\ call.op = "IsWorkingDay"
    /\ cal.cdav = Nil
    /\ argDate = ParisDay(2019, 1, 11)
    /\ call.bool = TRUE

\* p occurs in s: s = pre \o p \o post for some pre and post.
IsSubstring(p, s) ==
    \E pre \in 0..Len(s) :
        /\ pre + Len(p) <= Len(s)
        /\ \A j \in 1..Len(p) : s[pre + j] = p[j]

\* The override gives the call an error: the query is not built, or it fails.
OverrideFails == ~remote.built \/ remote.err

\* Some event of the remote answer has a summary with the configured pattern in it.
SomeEventMatches ==
    \E n \in 1..Len(remote.events) :
        IsSubstring(cal.caldavSummaryPattern, remote.events[n].Summary)

\* The date of the call, a midnight in the configured zone, is a fixed holiday.
FixedHoliday == argDate \in GetHolidaysSet(cal, CivilOf(argDate.day).year)

\* C7: with an override client whose query succeeds, IsHolidaysFromCaldav(D) is
\* (true, nil) exactly when some returned event has a summary containing the
\* pattern, (false, nil) otherwise (no event, or none matching), and IsHoliday(D)
\* is true exactly when D is a fixed holiday or such an event exists.
C7_OverrideMatchesSummaryPattern ==
    (cal.cdav # Nil /\ ~OverrideFails) =>
        /\ call.op = "IsHolidaysFromCaldav" =>
              /\ call.err = FALSE
              /\ call.bool = SomeEventMatches
              /\ remote.events = <<>> => call.bool = FALSE
              /\ (cal.caldavSummaryPattern = Holidays
                    /\ remote.events = <<[Summary |-> Holidays]>>) => call.bool = TRUE
              /\ (cal.caldavSummaryPattern = Holidays
                    /\ remote.events = <<[Summary |-> AnotherEvent]>>) => call.bool = FALSE
        /\ (call.op = "IsHoliday" /\ AtMidnight) =>
              call.bool = (FixedHoliday \/ SomeEventMatches)

C7_Witness ==
    /\ call.op = "IsHoliday"
    /\ cal.cdav # Nil
    /\ cal.caldavSummaryPattern = Holidays
    /\ remote = [built |-> TRUE, err |-> FALSE,
                 events |-> <<[Summary |-> AnotherEvent], [Summary |-> SummerHolidays]>>]
    /\ argDate = ParisDay(2022, 4, 16)
    /\ ~FixedHoliday
    /\ call.bool = TRUE

\* The Calendar without its override client: the fixed list alone.
FixedListOnly == [cal EXCEPT !.cdav = Nil]

\* C8: whatever the remote answers, IsHoliday(D) returns a boolean, true whenever
\* the fixed list alone makes D a holiday; when the query fails (or cannot be
\* built) the result is that of the fixed list alone and the error is logged
\* (IsHoliday returns no error).
C8_OverrideOnlyAddsHolidays ==
    call.op = "IsHoliday" =>
        /\ call.bool \in BOOLEAN
        /\ IsHoliday(FixedListOnly, argDate, NoAnswer).ret => call.bool = TRUE
        /\ (AtMidnight /\ FixedHoliday) => call.bool = TRUE
        /\ (cal.cdav # Nil /\ OverrideFails) =>
              /\ call.bool = IsHoliday(FixedListOnly, argDate, NoAnswer).ret
              /\ AtMidnight => call.bool = FixedHoliday
              /\ call.logged = TRUE
        /\ call.logged => (cal.cdav # Nil /\ OverrideFails)

C8_Witness ==
    /\ call.op = "IsHoliday"
    /\ cal.cdav # Nil
    /\ remote.err
    /\ argDate = ParisDay(2020, 7, 14)
    /\ call.bool = TRUE
    /\ call.logged = TRUE

(***************************************************************************)
(* Properties of the program's startup, under Spec.                        *)
(***************************************************************************)
\* C9: started with an empty caldav-url, the program waits on no connectivity
\* validation (none is attempted), issues no remote query, gets (false, nil)
\* from IsHolidaysFromCaldav and answers IsHoliday from the fixed list alone.
C9_NoEndpointDisablesOverride ==
    (osArgs > 1 /\ caldavUrl = "") =>
        /\ attempts = 0
        /\ validation = "none"
        /\ call.queried = FALSE
        /\ call.op = "IsHolidaysFromCaldav" => (call.bool = FALSE /\ call.err = FALSE)
        /\ call.op = "ServeHTTP" =>
              call.cd.Ferie = IsHoliday([cal EXCEPT !.cdav = Nil], call.cd.Day, NoAnswer).ret

\* C10: NewCaldav returns only after a ValidateServer attempt succeeded; a
\* failed attempt, however many failed before it, leaves NewCaldav retrying
\* (the next attempt is due); no failure makes NewCaldav return an error or
\* ends the process.
C10_ValidationNeverGivesUp ==
    /\ [](pc # "fatal")
    /\ [](pc \in {"new", "serve", "listenFatal", "exit"} => validation = "ok")
    /\ [][ValidateAttempt =>
              \/ validation' = "ok" /\ pc' = "new"
              \/ validation' = "failed" /\ pc' = "validate" /\ attempts' >= attempts]_vars
    /\ [][(pc # "new" /\ pc' = "new") => (pc = "validate" /\ validation' = "ok")]_vars

\* NewCaldav returned after at least three failed attempts.
C10_Witness ==
    /\ pc = "new"
    /\ attempts >= 3
    /\ validation = "ok"

(***************************************************************************)
(* Properties of dates given in another location, under SpecOracle.        *)
(***************************************************************************)
\* The date given, read in the Calendar's location.
InZone == In(argDate, cal.Location)

\* C11: without override, IsHoliday(t) is true exactly when the day of t in
\* the Calendar's location is in the holiday set of that day's year in the
\* Calendar's location, whatever location and time of day t is given in.
C11_IsHolidayByConfiguredDay ==
    (call.op = "IsHoliday" /\ cal.cdav = Nil) =>
        call.bool = (HolidayDay(cal, argDate) \in GetHolidaysSet(cal, Year(InZone)))

\* Monday to Friday.
WeekDays == Monday..Friday

\* C12: IsWeekDay(t), and the weekday part of IsWorkingDay(t), is true exactly
\* when the weekday of t in the Calendar's location is Monday to Friday,
\* whatever location t is given in.
C12_WeekdayInConfiguredZone ==
    /\ call.op = "IsWeekDay" => call.bool = (Weekday(InZone) \in WeekDays)
    /\ call.op = "IsWorkingDay" =>
          call.bool = (~IsHoliday(cal, argDate, remote).ret /\ Weekday(InZone) \in WeekDays)

(***************************************************************************)
(* Properties of the end of the startup validation, under SpecLive.        *)
(***************************************************************************)
\* C13: once NewCaldav is called, if the server becomes and stays reachable,
\* NewCaldav eventually returns the client (the attempt that succeeds is its
\* return); once an attempt has succeeded no other attempt is made: the
\* attempts counted do not change and main never validates again nor takes
\* the Fatal of a failed NewCaldav.
C13_ValidationCompletesOnceReachable ==
    /\ (<>(pc = "validate") /\ caldavUrl # "" /\ <>[]reachable) =>
            <>(pc = "new" /\ validation = "ok")
    /\ [][validation = "ok" =>
              /\ validation' = "ok"
              /\ attempts' = attempts
              /\ pc' \in {"new", "serve", "listenFatal", "exit"}]_vars

\* NewCaldav returned at the first attempt made once the server was reachable,
\* after failed ones.
C13_Witness ==
    /\ pc = "new"
    /\ validation = "ok"
    /\ reachable
    /\ attempts >= 1

(***************************************************************************)
(* Properties of the program once it serves, under Spec.                   *)
(***************************************************************************)
\* C14: the listener starts only after NewCaldav returned a validated client:
\* before that no /calendar request is being served or was served and no
\* query of the Calendar was made; whenever the program serves, or a request
\* or a query has run, validation has succeeded.
C14_NotReadyBeforeValidation ==
    /\ pc \in {"start", "flagError", "usage", "loggerFatal", "validate", "new", "fatal"} =>
            (call = NoCall /\ req = NoReq /\ cal = NoCal)
    /\ (pc \in {"serve", "listenFatal", "exit"} \/ call.op # "none" \/ req.pc # "idle") =>
            (validation = "ok" /\ cal # NoCal)

\* A /calendar request answered, after validation attempts that failed.
C14_Witness ==
    /\ call.op = "ServeHTTP"
    /\ attempts >= 1
    /\ validation = "ok"

(***************************************************************************)
(* Properties of the remote query, under SpecOracle.                       *)
(***************************************************************************)
\* The last second (23:59:59) of the civil day that starts at midnight.
LastSecond(midnight) == fromWall(norm(midnight.day, 86400 - 1), midnight.loc)

\* C15: every remote query made for an instant t asks for the civil day of t
\* in the Calendar's location: from that day's midnight to its 23:59:59, both
\* as UTC instants.
C15_WindowIsCivilDay ==
    call.queried =>
        /\ call.query.start = UTC(HolidayDay(cal, argDate))
        /\ call.query.end = UTC(LastSecond(HolidayDay(cal, argDate)))

(***************************************************************************)
(* IsHoliday called from several goroutines on one Calendar (the HTTP      *)
(* server runs each request in its own goroutine).  A call has only locals *)
(* (h, d, day, caldavHolidays, err) and reads the Calendar; it blocks in   *)
(* QueryEvents, where the other calls and the remote calendar go on.       *)
(***************************************************************************)
\* The dates the concurrent calls are given: July 14 (a fixed holiday) and an
\* ordinary Saturday.
CallDates ==
    { Date(2020, 7, 14, Paris), Date(2022, 4, 16, Paris) }

\* An IsHoliday call not started yet, to be given date: its locals.
NotStarted(date) ==
    [pc |-> "start", date |-> date, h |-> {}, day |-> NoTime, answer |-> NoAnswer,
     queries |-> 0, ret |-> FALSE, logged |-> FALSE]

\* The answer call i decides on, read from one that shares its answers with
\* every later call.
AnswerOf_Shared(gs, i) == gs[1].answer

\* The answer call i decides on: the one its own QueryEvents returned.
AnswerOf(gs, i) == gs[i].answer

\* Call g once h and day are computed and IsHolidaysFromCaldav has asked: a is
\* what the caldav library gives it, sent whether QueryEvents was called.
Asked(g, h, day, a, sent) ==
    [g EXCEPT !.pc = "answered", !.h = h, !.day = day, !.answer = a,
              !.queries = IF sent THEN @ + 1 ELSE @]

\* Call g with the results r of IsHoliday.
Returned(g, r) == [g EXCEPT !.pc = "done", !.ret = r.ret, !.logged = r.logged]

\* IsHoliday up to the return of QueryEvents: h, d and day are computed, and
\* IsHolidaysFromCaldav, when there is a client, builds its query, sends it
\* unless NewEventRangeQuery returned an error, and gets what the remote
\* calendar answers at that time.
IsHolidayQuery(i) ==
    /\ pc = "go"
    /\ goroutines[i].pc = "start"
    /\ goroutines' =
          [goroutines EXCEPT ![i] =
              Asked(@, GetHolidaysSet(cal, Year(@.date)), HolidayDay(cal, @.date),
                    IF cal.cdav = Nil THEN NoAnswer ELSE remote,
                    cal.cdav # Nil /\ ~dayQuery(UTC(HolidayDay(cal, @.date)), remote.built).err)]
    /\ UNCHANGED <<pc, osArgs, caldavUrl, caldavPath, caldavSummaryPattern, attempts,
                   validation, cal, argYear, argDate, remote, call, req, reachable>>

\* IsHoliday from the return of QueryEvents: the summaries are matched, the
\* error is logged and h[day] || caldavHolidays is returned, h and day being
\* the call's locals.
IsHolidayReturn(i) ==
    /\ pc = "go"
    /\ goroutines[i].pc = "answered"
    /\ goroutines' =
          [goroutines EXCEPT ![i] =
              Returned(@, holidayOn(cal, @.h, @.day, AnswerOf(goroutines, i)))]
    /\ UNCHANGED <<pc, osArgs, caldavUrl, caldavPath, caldavSummaryPattern, attempts,
                   validation, cal, argYear, argDate, remote, call, req, reachable>>

\* The remote calendar changes while calls are running.
RemoteChangesDuringCalls ==
    /\ pc = "go"
    /\ cal.cdav # Nil
    /\ remote' \in RemoteAnswers \ {remote}
    /\ UNCHANGED <<pc, osArgs, caldavUrl, caldavPath, caldavSummaryPattern, attempts,
                   validation, cal, argYear, argDate, call, req, reachable, goroutines>>

\* MaxCalls calls of IsHoliday, each with its date, on a Calendar of Paris
\* with or without a client.
InitConcurrent ==
    /\ pc = "go"
    /\ osArgs = 0
    /\ caldavUrl = ""
    /\ caldavPath = ""
    /\ caldavSummaryPattern = <<>>
    /\ attempts = 0
    /\ validation = "none"
    /\ cal \in { New(Paris, <<>>),
                  New(Paris, <<WithCaldav("mock"), WithCaldavSummaryPattern(Holidays)>>) }
    /\ argYear = 0
    /\ argDate = NoTime
    /\ remote \in (IF cal.cdav = Nil THEN {NoAnswer} ELSE RemoteAnswers)
    /\ call = NoCall
    /\ req = NoReq
    /\ reachable = FALSE
    /\ goroutines \in [1..MaxCalls -> {NotStarted(d) : d \in CallDates}]

NextConcurrent ==
    \/ \E i \in 1..MaxCalls : IsHolidayQuery(i)
    \/ \E i \in 1..MaxCalls : IsHolidayReturn(i)
    \/ RemoteChangesDuringCalls

SpecConcurrent == InitConcurrent /\ [][NextConcurrent]_vars

(***************************************************************************)
(* Properties of concurrent calls, under SpecConcurrent.                   *)
(***************************************************************************)
\* The holidays of year Y in Paris, from the Easter Sunday of the anonymous
\* Gregorian algorithm.
ParisHolidays(Y) ==
    LET E == DayNumber(Y, AnonymousGregorian(Y).month, AnonymousGregorian(Y).day)
    IN  { ParisDay(Y, 1, 1), ParisDay(Y, 5, 1), ParisDay(Y, 5, 8), ParisDay(Y, 7, 14),
          ParisDay(Y, 8, 15), ParisDay(Y, 11, 1), ParisDay(Y, 11, 11), ParisDay(Y, 12, 25),
          fromWall(norm(E + 1, 0), Paris), fromWall(norm(E + 39, 0), Paris) }

\* What a call alone returns for date, a midnight in Paris, when the caldav
\* library gives it a: the day is a holiday of its year, or the query was
\* built and answered with an event whose summary has the pattern in it.
AloneResult(date, a) ==
    \/ date \in ParisHolidays(CivilOf(date.day).year)
    \/ /\ cal.cdav # Nil
       /\ a.built
       /\ ~a.err
       /\ \E n \in 1..Len(a.events) :
              IsSubstring(cal.caldavSummaryPattern, a.events[n].Summary)

\* What every call of the concurrent calls returned is what it returns alone
\* on what it received, the error logged when it received one; no step
\* changes the Calendar.
CallsAreAlone ==
    /\ [](\A i \in 1..MaxCalls :
            goroutines[i].pc = "done" =>
                /\ goroutines[i].ret = AloneResult(goroutines[i].date, goroutines[i].answer)
                /\ goroutines[i].logged =
                      (cal.cdav # Nil /\ (~goroutines[i].answer.built \/ goroutines[i].answer.err)))
    /\ [][cal' = cal]_vars

\* C16 as claimed: IsHoliday keeps no state between calls: a call on a
\* Calendar with a client has made exactly one remote query when it returns (a
\* fixed holiday or not); what it returns is what IsHoliday returns alone on
\* the answer that call received, whatever the other calls received and
\* however they interleave; no step changes the Calendar.
C16_ExactlyOneQuery ==
    /\ [](\A i \in 1..MaxCalls :
            goroutines[i].queries = (IF cal.cdav # Nil /\ goroutines[i].pc # "start"
                                         THEN 1 ELSE 0))
    /\ CallsAreAlone

\* C16, amended: a call on a Calendar with a client has made exactly one remote
\* query when it returns (a fixed holiday or not), unless NewEventRangeQuery
\* returned an error: it has then made none, and returns from the fixed list
\* with the error logged; a call without client makes none; the rest as claimed.
C16_NoStateBetweenCalls ==
    /\ [](\A i \in 1..MaxCalls :
            goroutines[i].queries =
                (IF cal.cdav # Nil /\ goroutines[i].pc # "start" /\ goroutines[i].answer.built
                 THEN 1 ELSE 0))
    /\ CallsAreAlone

\* Two calls for the same ordinary day returned, each after its own query: the
\* first got an answer that made the day a holiday, the second another answer
\* that did not.
C16_Witness ==
    /\ goroutines[1].pc = "done"
    /\ goroutines[2].pc = "done"
    /\ goroutines[1].date = goroutines[2].date
    /\ goroutines[1].date.day = DayNumber(2022, 4, 16)
    /\ goroutines[1].answer # goroutines[2].answer
    /\ goroutines[2].answer.built
    /\ goroutines[1].ret = TRUE
    /\ goroutines[2].ret = FALSE
    /\ goroutines[2].queries = 1

(***************************************************************************)
(* Properties of the summary pattern, under SpecOracle.                    *)
(***************************************************************************)
\* No event the remote calendar answers has "Holidays" in its summary.
NoHolidaysEvent ==
    \A n \in 1..Len(remote.events) : ~IsSubstring(Holidays, remote.events[n].Summary)

\* C17: on a Calendar with a client and no summary pattern configured, the
\* pattern is "Holidays": events whose summaries do not contain "Holidays" do
\* not make the day a holiday, for IsHolidaysFromCaldav and for IsHoliday.
C17_DefaultPatternIsHolidays ==
    (cal.cdav # Nil /\ cal.caldavSummaryPattern = <<>> /\ ~OverrideFails /\ NoHolidaysEvent) =>
        /\ call.op = "IsHolidaysFromCaldav" => call.bool = FALSE
        /\ call.op = "IsHoliday" =>
              call.bool = IsHoliday([cal EXCEPT !.cdav = Nil], argDate, NoAnswer).ret

(***************************************************************************)
(* Properties of the /calendar response, under Spec.                       *)
(***************************************************************************)
\* C18: in every /calendar response, working_day = (not ferie) and weekday,
\* and holiday implies ferie, also when the remote calendar changes while the
\* request is served.
C18_ResponseIsConsistent ==
    call.op = "ServeHTTP" =>
        /\ call.cd.WorkingDay = (~call.cd.Ferie /\ call.cd.Weekday)
        /\ call.cd.Holiday => call.cd.Ferie

====
